---- MODULE Spec2Model ----
(***************************************************************************)
(* Formset views of mongogeneric/formsets.py.                              *)
(*                                                                         *)
(* One view class is deployed with one set of class attributes.  Two       *)
(* requests are served by two view instances that share the document       *)
(* store.  A handler is cut into steps at the points where it reads or     *)
(* writes the store, so that the steps of the two requests interleave the  *)
(* way two worker threads of the host framework interleave them.           *)
(***************************************************************************)
EXTENDS Integers, Sequences, FiniteSets, TLC

(* ------------------------------------------------------------------ *)
(* Bounds and input sets                                                *)
(* ------------------------------------------------------------------ *)

\* number of distinct documents
MaxDoc == 2

Docs == 1..MaxDoc

Requests == {"r1", "r2"}

Methods == {"GET", "POST", "PUT"}

\* request.get_full_path() of the incoming request
Paths == {"/docs/", "/docs/?page=2"}

\* request.POST of a POST or PUT: no row, or one row for one document
Bodies == {{}} \cup { {d} : d \in Docs }

\* request.FILES of a POST or PUT
Uploads == {"upload"}

\* what the document store holds when the first request arrives
InitialStores == {{}, {1}}

\* keys and values a caller passes to get_context_data directly
CallKeys == {"formset", "object_list", "doc_list"}

CallValues == {{}, Docs}

None == "None"

BaseFormSetView == "BaseFormSetView"
FormSetView == "FormSetView"
BaseDocumentFormSetView == "BaseDocumentFormSetView"
DocumentFormSetView == "DocumentFormSetView"

ViewClasses ==
    {BaseFormSetView, FormSetView, BaseDocumentFormSetView, DocumentFormSetView}

\* the classes that have DocumentFormSetMixin in their bases
IsDocumentView(v) == v \in {BaseDocumentFormSetView, DocumentFormSetView}

\* class attributes of BaseFormSetMixin and DocumentFormSetMixin
BaseFormSetMixin ==
    [document |-> "Doc", initial |-> <<>>, form_class |-> None,
     formset_class |-> None, success_url |-> None, extra |-> 2,
     max_num |-> None, can_order |-> FALSE, can_delete |-> FALSE,
     exclude |-> None, fields |-> None, formfield_callback |-> None]

\* subclasses override the class attributes.  max_num is handed to the
\* factory unread; its values are written as strings so that None and a
\* number can be told apart by equality.
Tunings ==
    { BaseFormSetMixin,
      [BaseFormSetMixin EXCEPT !.extra = 0, !.max_num = "3", !.can_order = TRUE,
                               !.form_class = "DocForm", !.formset_class = "DocFormSet",
                               !.initial = <<"a">>] }

SuccessUrls == {None, "", "/done/"}

Configs == { [t EXCEPT !.success_url = u] : t \in Tunings, u \in SuccessUrls }

(* ------------------------------------------------------------------ *)
(* State                                                                *)
(* ------------------------------------------------------------------ *)

VARIABLES
    view,         \* the deployed view class
    cfg,          \* its class attributes
    store,        \* the documents in the document store
    pc,           \* per request: position in the handler
    request,      \* per request: method, full path, POST data, FILES
    object_list,  \* per request: self.object_list of the view instance
    formset,      \* per request: the constructed formset
    valid,        \* per request: what formset.is_valid() returned
    response,     \* per request: the response the handler returned
    trace,        \* per request: the calls made so far, in order
    saved,        \* per request: what formset.save() returned
    candidate,    \* per request: what get_queryset() returned at request start
    call_kwargs,  \* keyword arguments of a direct get_context_data call
    call_result   \* what that call returned

vars == <<view, cfg, store, pc, request, object_list, formset, valid, response,
          trace, saved, candidate, call_kwargs, call_result>>

callvars == <<call_kwargs, call_result>>

(* ------------------------------------------------------------------ *)
(* Dictionaries                                                         *)
(* ------------------------------------------------------------------ *)

EmptyDict == [k \in {} |-> None]

\* dict.update(other): keys of other overwrite
DictUpdate(d, other) ==
    [k \in DOMAIN d \cup DOMAIN other |-> IF k \in DOMAIN other THEN other[k] ELSE d[k]]

\* Python truth value of a string-or-None attribute
Truthy(s) == s /= None /\ s /= ""

(* ------------------------------------------------------------------ *)
(* Collaborators: document store, formset library, host framework       *)
(* ------------------------------------------------------------------ *)

\* MultipleDocumentsMixin.get_queryset(): the candidate documents, read from
\* the store each time it is called
GetQueryset(s) == s

\* MultipleDocumentsMixin.get_context_object_name(object_list): the
\* model-named alias of the object list
GetContextObjectName(ol) == "doc_list"

\* formset.save(): the rows submitted in the bound data are saved and returned
FormsetSave(fs) == fs.kwargs["data"]

\* request.get_full_path()
GetFullPath(req) == req.full_path

NoResponse == [kind |-> "none", url |-> None, context |-> EmptyDict]

HttpResponseRedirect(url) == [kind |-> "redirect", url |-> url, context |-> EmptyDict]

RenderToResponse(context) == [kind |-> "render", url |-> None, context |-> context]

(* ------------------------------------------------------------------ *)
(* BaseFormSetMixin                                                     *)
(* ------------------------------------------------------------------ *)

GetInitial(c) == c.initial

GetFormsetClass(c) == c.formset_class

GetFormClass(c) == c.form_class

\* a get_formset_kwargs that binds the formset on POST only
BaseGetFormsetKwargsPostOnly(req) ==
    IF req.method = "POST"
    THEN ("data" :> req.POST) @@ ("files" :> req.FILES)
    ELSE EmptyDict

BaseGetFormsetKwargs(req) ==
    IF req.method \in {"POST", "PUT"}
    THEN ("data" :> req.POST) @@ ("files" :> req.FILES)
    ELSE EmptyDict

\* a get_factory_kwargs that passes the class defaults, not the configuration
BaseGetFactoryKwargsDefaults(c) ==
    LET kwargs == ("extra" :> BaseFormSetMixin.extra)
                  @@ ("max_num" :> BaseFormSetMixin.max_num)
                  @@ ("can_order" :> c.can_order) @@ ("can_delete" :> c.can_delete)
    IN  IF Truthy(c.formset_class)
        THEN DictUpdate(kwargs, "formset" :> c.formset_class)
        ELSE kwargs

BaseGetFactoryKwargs(c) ==
    LET kwargs == ("extra" :> c.extra) @@ ("max_num" :> c.max_num)
                  @@ ("can_order" :> c.can_order) @@ ("can_delete" :> c.can_delete)
    IN  IF Truthy(GetFormsetClass(c))
        THEN DictUpdate(kwargs, "formset" :> GetFormsetClass(c))
        ELSE kwargs

(* ------------------------------------------------------------------ *)
(* FormSetMixin                                                         *)
(* ------------------------------------------------------------------ *)

\* a get_success_url that tests success_url against None only
GetSuccessUrlIfNotNone(c, req) ==
    IF c.success_url /= None THEN c.success_url ELSE GetFullPath(req)

GetSuccessUrl(c, req) ==
    IF Truthy(c.success_url) THEN c.success_url ELSE GetFullPath(req)

BaseFormsetValid(c, req) == HttpResponseRedirect(GetSuccessUrl(c, req))

(* ------------------------------------------------------------------ *)
(* DocumentFormSetMixin                                                 *)
(* ------------------------------------------------------------------ *)

\* the context, given self.object_list (a set of documents) and the keyword
\* arguments; ContextMixin.get_context_data returns what it is given
DocGetContextData(docs, kwargs) ==
    LET context ==
            IF docs /= {}
            THEN LET context_object_name == GetContextObjectName(docs)
                 IN  IF Truthy(context_object_name)
                     THEN ("object_list" :> docs) @@ (context_object_name :> docs)
                     ELSE ("object_list" :> docs)
            ELSE EmptyDict
    IN  DictUpdate(context, kwargs)

DocGetFormsetKwargs(req, queryset) ==
    DictUpdate(BaseGetFormsetKwargs(req), "queryset" :> queryset)

DocGetFactoryKwargs(c) ==
    LET k1 == DictUpdate(BaseGetFactoryKwargs(c),
                         ("exclude" :> c.exclude) @@ ("fields" :> c.fields)
                         @@ ("formfield_callback" :> c.formfield_callback))
        k2 == IF Truthy(GetFormClass(c))
              THEN DictUpdate(k1, "form" :> GetFormClass(c)) ELSE k1
    IN  IF Truthy(GetFormsetClass(c))
        THEN DictUpdate(k2, "formset" :> GetFormsetClass(c)) ELSE k2

(* ------------------------------------------------------------------ *)
(* Method resolution over the composed view classes                     *)
(* ------------------------------------------------------------------ *)

GetFactoryKwargs(v, c) ==
    IF IsDocumentView(v) THEN DocGetFactoryKwargs(c) ELSE BaseGetFactoryKwargs(c)

\* the formset class is the factory call that manufactures it
GetFormset(v, c) ==
    IF IsDocumentView(v)
    THEN [args |-> <<c.document>>, kwargs |-> GetFactoryKwargs(v, c)]
    ELSE [args |-> <<c.document, GetFormClass(c)>>, kwargs |-> GetFactoryKwargs(v, c)]

GetFormsetKwargs(v, req, queryset) ==
    IF IsDocumentView(v) THEN DocGetFormsetKwargs(req, queryset)
    ELSE BaseGetFormsetKwargs(req)

ConstructFormset(v, c, req, queryset) ==
    [cls |-> GetFormset(v, c), initial |-> GetInitial(c),
     kwargs |-> GetFormsetKwargs(v, req, queryset)]

GetContextData(v, docs, kwargs) ==
    IF IsDocumentView(v) THEN DocGetContextData(docs, kwargs) ELSE kwargs

\* the handler self.get / self.post resolves to
GetHandler(v) == IF IsDocumentView(v) THEN "doc_get" ELSE "proc_get"

PostHandler(v) == IF IsDocumentView(v) THEN "doc_post" ELSE "proc_post"

\* a put that calls ProcessFormSetView.post, not self.post
PutHandlerNoOverride(v) == "proc_post"

\* ProcessFormSetView.put: return self.post(*args, **kwargs)
PutHandler(v) == PostHandler(v)

\* View.dispatch: the handler named after the request method
HandlerFor(v, m) ==
    CASE m = "GET" -> GetHandler(v)
      [] m = "POST" -> PostHandler(v)
      [] m = "PUT" -> "put"

(* ------------------------------------------------------------------ *)
(* Initial state                                                        *)
(* ------------------------------------------------------------------ *)

NoRequest == [method |-> "GET", full_path |-> "", POST |-> {}, FILES |-> "nofile"]

Unassigned == [assigned |-> FALSE, docs |-> {}]

NoFormset == [cls |-> [args |-> <<>>, kwargs |-> EmptyDict], initial |-> <<>>,
              kwargs |-> EmptyDict]

\* no direct call of get_context_data has returned
NotCalled == "not called" :> {}

Init ==
    /\ view \in ViewClasses
    /\ cfg \in Configs
    /\ store \in InitialStores
    /\ pc = [r \in Requests |-> "idle"]
    /\ request = [r \in Requests |-> NoRequest]
    /\ object_list = [r \in Requests |-> Unassigned]
    /\ formset = [r \in Requests |-> NoFormset]
    /\ valid = [r \in Requests |-> FALSE]
    /\ response = [r \in Requests |-> NoResponse]
    /\ trace = [r \in Requests |-> <<>>]
    /\ saved = [r \in Requests |-> {}]
    /\ candidate = [r \in Requests |-> {}]
    /\ call_kwargs = EmptyDict
    /\ call_result = NotCalled

(* ------------------------------------------------------------------ *)
(* Steps of a request                                                   *)
(* ------------------------------------------------------------------ *)

\* the handler returns `resp`
Return(r, resp, calls) ==
    /\ pc' = [pc EXCEPT ![r] = "done"]
    /\ response' = [response EXCEPT ![r] = resp]
    /\ trace' = [trace EXCEPT ![r] = @ \o calls]

\* a handler that caught the exception and answered with an error page
RaiseCaught(r, calls) ==
    Return(r, RenderToResponse(EmptyDict), calls \o <<"raise">>)

\* an exception raised by the last of `calls` leaves the handler: no
\* statement of this layer catches it, nothing is returned
Raise(r, calls) ==
    /\ pc' = [pc EXCEPT ![r] = "raised"]
    /\ trace' = [trace EXCEPT ![r] = @ \o calls \o <<"raise">>]
    /\ UNCHANGED response

\* A request arrives: as_view() makes a fresh view instance and dispatch()
\* calls the handler named after the method.  A GET carries no body.
Dispatch(r) ==
    /\ pc[r] = "idle"
    /\ \E m \in Methods, p \in Paths, d \in Bodies, f \in Uploads \cup {"nofile"} :
         /\ m = "GET" <=> f = "nofile"
         /\ m = "GET" => d = {}
         /\ request' = [request EXCEPT ![r] =
                          [method |-> m, full_path |-> p, POST |-> d, FILES |-> f]]
         /\ pc' = [pc EXCEPT ![r] = HandlerFor(view, m)]
    /\ UNCHANGED <<view, cfg, store, object_list, formset, valid, response, trace,
                   saved, candidate, callvars>>

\* ProcessFormSetView.put
Put(r) ==
    /\ pc[r] = "put"
    /\ pc' = [pc EXCEPT ![r] = PutHandler(view)]
    /\ trace' = [trace EXCEPT ![r] = Append(@, "put")]
    /\ UNCHANGED <<view, cfg, store, request, object_list, formset, valid,
                   response, saved, candidate, callvars>>

\* self.object_list = self.get_queryset(), then the handler of ProcessFormSetView
FetchObjectList(r, next) ==
    /\ \/ /\ object_list' = [object_list EXCEPT ![r] =
                               [assigned |-> TRUE, docs |-> GetQueryset(store)]]
          /\ candidate' = [candidate EXCEPT ![r] = GetQueryset(store)]
          /\ pc' = [pc EXCEPT ![r] = next]
          /\ trace' = [trace EXCEPT ![r] = Append(@, "get_queryset")]
          /\ UNCHANGED response
       \/ /\ Raise(r, <<"get_queryset">>)
          /\ UNCHANGED <<object_list, candidate>>
    /\ UNCHANGED <<view, cfg, store, request, formset, valid, saved, callvars>>

\* BaseDocumentFormSetView.get
DocGet(r) ==
    /\ pc[r] = "doc_get"
    /\ FetchObjectList(r, "proc_get")

\* BaseDocumentFormSetView.post
DocPost(r) ==
    /\ pc[r] = "doc_post"
    /\ FetchObjectList(r, "proc_post")

\* the calls construct_formset makes that reach the store
ConstructCalls(v) ==
    IF IsDocumentView(v) THEN <<"construct_formset", "get_queryset">>
    ELSE <<"construct_formset">>

\* self.render_to_response(self.get_context_data(formset=fs)); reading an
\* object_list that was never assigned is an AttributeError
Render(r, fs, calls) ==
    IF IsDocumentView(view) /\ ~object_list[r].assigned
    THEN Raise(r, calls \o <<"get_context_data">>)
    ELSE Return(r, RenderToResponse(
                       GetContextData(view, object_list[r].docs, "formset" :> fs)),
                calls \o <<"get_context_data", "render_to_response">>)

\* ProcessFormSetView.get
ProcGet(r) ==
    /\ pc[r] = "proc_get"
    /\ \/ LET fs == ConstructFormset(view, cfg, request[r], GetQueryset(store))
          IN  /\ formset' = [formset EXCEPT ![r] = fs]
              /\ Render(r, fs, ConstructCalls(view))
       \/ /\ IsDocumentView(view)
          /\ Raise(r, ConstructCalls(view))
          /\ UNCHANGED formset
    /\ UNCHANGED <<view, cfg, store, request, object_list, valid, saved, candidate,
                   callvars>>

\* FormSetMixin.formset_invalid
FormsetInvalid(r, fs, calls) == Render(r, fs, calls \o <<"formset_invalid">>)

\* a post that treats every formset as valid
PostBranchAlwaysValid(ok) == "formset_valid"

\* a post with the two branches exchanged
PostBranchSwapped(ok) == IF ok THEN "formset_invalid" ELSE "formset_valid"

\* ProcessFormSetView.post: the handler the result of is_valid() selects
PostBranch(ok) == IF ok THEN "formset_valid" ELSE "formset_invalid"

\* ProcessFormSetView.post.  formset.is_valid() is decided by the formset
\* library.  A valid formset of a document view goes on to the save, which
\* is the handler's next access to the store.
ProcPost(r) ==
    /\ pc[r] = "proc_post"
    /\ \/ \E ok \in BOOLEAN :
            LET fs == ConstructFormset(view, cfg, request[r], GetQueryset(store))
                calls == ConstructCalls(view) \o <<"is_valid">>
            IN  /\ formset' = [formset EXCEPT ![r] = fs]
                /\ valid' = [valid EXCEPT ![r] = ok]
                /\ IF PostBranch(ok) = "formset_invalid"
                   THEN FormsetInvalid(r, fs, calls)
                   ELSE IF IsDocumentView(view)
                   THEN /\ pc' = [pc EXCEPT ![r] = "doc_formset_valid"]
                        /\ trace' = [trace EXCEPT ![r] =
                                       @ \o calls \o <<"formset_valid">>]
                        /\ UNCHANGED response
                   ELSE Return(r, BaseFormsetValid(cfg, request[r]),
                               calls \o <<"formset_valid", "redirect">>)
       \/ /\ IsDocumentView(view)
          /\ Raise(r, ConstructCalls(view))
          /\ UNCHANGED <<formset, valid>>
    /\ UNCHANGED <<view, cfg, store, request, object_list, saved, candidate,
                   callvars>>

\* a formset_valid that drops what save() returned
KeepObjectList(ol, rows) == ol

\* self.object_list = formset.save()
AssignSaved(ol, rows) == [assigned |-> TRUE, docs |-> rows]

\* DocumentFormSetMixin.formset_valid
DocFormsetValid(r) ==
    /\ pc[r] = "doc_formset_valid"
    /\ \/ LET rows == FormsetSave(formset[r])
          IN  /\ store' = store \cup rows
              /\ saved' = [saved EXCEPT ![r] = rows]
              /\ object_list' = [object_list EXCEPT ![r] = AssignSaved(@, rows)]
              /\ Return(r, BaseFormsetValid(cfg, request[r]), <<"save", "redirect">>)
       \/ /\ Raise(r, <<"save">>)
          /\ UNCHANGED <<store, saved, object_list>>
    /\ UNCHANGED <<view, cfg, request, formset, valid, candidate, callvars>>

Next ==
    \E r \in Requests :
        \/ Dispatch(r)
        \/ Put(r)
        \/ DocGet(r)
        \/ DocPost(r)
        \/ ProcGet(r)
        \/ ProcPost(r)
        \/ DocFormsetValid(r)

Spec == Init /\ [][Next]_vars

(* ------------------------------------------------------------------ *)
(* get_context_data called directly                                     *)
(* ------------------------------------------------------------------ *)

\* the keyword arguments a caller can pass
CallKwargs ==
    UNION { [K -> CallValues] : K \in SUBSET CallKeys }

\* a document view; the handler of request r1 has assigned object_list
CallInit ==
    /\ view \in {v \in ViewClasses : IsDocumentView(v)}
    /\ cfg \in Configs
    /\ store \in SUBSET Docs
    /\ pc = [r \in Requests |-> "idle"]
    /\ request = [r \in Requests |-> NoRequest]
    /\ object_list = [r \in Requests |->
                        IF r = "r1" THEN [assigned |-> TRUE, docs |-> GetQueryset(store)]
                        ELSE Unassigned]
    /\ formset = [r \in Requests |-> NoFormset]
    /\ valid = [r \in Requests |-> FALSE]
    /\ response = [r \in Requests |-> NoResponse]
    /\ trace = [r \in Requests |-> <<>>]
    /\ saved = [r \in Requests |-> {}]
    /\ candidate = [r \in Requests |-> IF r = "r1" THEN GetQueryset(store) ELSE {}]
    /\ call_kwargs = EmptyDict
    /\ call_result = NotCalled

\* self.get_context_data(**kwargs)
CallGetContextData ==
    \E r \in Requests, kwargs \in CallKwargs :
        /\ object_list[r].assigned
        /\ call_kwargs' = kwargs
        /\ call_result' = GetContextData(view, object_list[r].docs, kwargs)
        /\ UNCHANGED <<view, cfg, store, pc, request, object_list, formset, valid,
                       response, trace, saved, candidate>>

CallNext == CallGetContextData

CallSpec == CallInit /\ [][CallNext]_vars

(* ------------------------------------------------------------------ *)
(* Properties                                                           *)
(* ------------------------------------------------------------------ *)

Count(seq, e) == Cardinality({i \in DOMAIN seq : seq[i] = e})

\* e occurs in seq, and first occurs before the first f (or f does not occur)
Precedes(seq, e, f) ==
    \E i \in DOMAIN seq :
        /\ seq[i] = e
        /\ \A j \in DOMAIN seq : seq[j] = f => i < j

IsSubmit(r) == request[r].method \in {"POST", "PUT"}

Finished(r) == pc[r] \in {"done", "raised"}

\* is_valid() has returned for the request's formset
Validated(r) == Count(trace[r], "is_valid") > 0

Handlers == {"formset_valid", "formset_invalid"}

\* C1: a request that ProcessFormSetView answers has exactly one outcome.  A
\* GET renders a freshly constructed formset and never validates.  A POST or
\* PUT constructs the formset, calls is_valid() once and then runs
\* formset_valid when it returned true and formset_invalid when it returned
\* false, never both, never neither, and no handler runs before is_valid().
\* A response exists exactly when the handler has returned.
C1_OneTerminalOutcome ==
    \A r \in Requests :
        LET t == trace[r]
            nv == Count(t, "formset_valid")
            ni == Count(t, "formset_invalid")
        IN  /\ (response[r].kind /= "none") <=> (pc[r] = "done")
            /\ nv + ni <= 1
            /\ \A i \in DOMAIN t :
                   t[i] \in Handlers => \E j \in 1..(i - 1) : t[j] = "is_valid"
            /\ (pc[r] = "done" /\ request[r].method = "GET") =>
                   /\ response[r].kind = "render"
                   /\ response[r].context["formset"] = formset[r]
                   /\ Count(t, "construct_formset") = 1
                   /\ Count(t, "render_to_response") = 1
                   /\ Count(t, "is_valid") = 0
                   /\ nv + ni = 0
            /\ (pc[r] = "done" /\ IsSubmit(r)) =>
                   /\ Count(t, "construct_formset") = 1
                   /\ Count(t, "is_valid") = 1
                   /\ nv = (IF valid[r] THEN 1 ELSE 0)
                   /\ ni = (IF valid[r] THEN 0 ELSE 1)
                   /\ response[r].kind = (IF valid[r] THEN "redirect" ELSE "render")

\* an invalid and a valid submission, each answered by its own handler
C1_Witness ==
    \E r \in Requests :
        /\ pc[r] = "done" /\ IsSubmit(r) /\ ~valid[r]
        /\ Count(trace[r], "formset_invalid") = 1
        /\ \E q \in Requests :
               /\ pc[q] = "done" /\ IsSubmit(q) /\ valid[q]
               /\ Count(trace[q], "formset_valid") = 1

\* C2: a POST or PUT whose formset fails validation never saves: save() is
\* not called, the store and object_list are as the request found them, and
\* the response is a render whose context maps 'formset' to the formset that
\* was validated, bound to the submitted data and files.
C2_InvalidNeverSaves ==
    \A r \in Requests :
        (IsSubmit(r) /\ Validated(r) /\ ~valid[r]) =>
            /\ Count(trace[r], "save") = 0
            /\ saved[r] = {}
            /\ pc[r] \in {"done", "raised"}
            /\ IsDocumentView(view) =>
                   object_list[r] = [assigned |-> TRUE, docs |-> candidate[r]]
            /\ ~IsDocumentView(view) => object_list[r] = Unassigned
            /\ pc[r] = "done" =>
                   /\ response[r].kind = "render"
                   /\ "formset" \in DOMAIN response[r].context
                   /\ response[r].context["formset"] = formset[r]
                   /\ formset[r].kwargs["data"] = request[r].POST
                   /\ formset[r].kwargs["files"] = request[r].FILES

\* an invalid submission of a row to a document view that had candidates
C2_Witness ==
    \E r \in Requests :
        /\ IsDocumentView(view) /\ IsSubmit(r) /\ Validated(r) /\ ~valid[r]
        /\ pc[r] = "done" /\ response[r].kind = "render"
        /\ request[r].POST /= {} /\ candidate[r] /= {}
        /\ request[r].POST /= candidate[r]

\* a valid submission to a document view has been answered
ValidDocDone(r) ==
    IsDocumentView(view) /\ IsSubmit(r) /\ pc[r] = "done" /\ valid[r]

\* C3 as stated: after a successful POST to a document view the rows that
\* formset.save() returned (called once, before the redirect) are the object
\* list in the context of the response, in place of the candidate list.
C3_SavedRowsInResponseContext ==
    \A r \in Requests :
        ValidDocDone(r) =>
            /\ Count(trace[r], "save") = 1
            /\ Precedes(trace[r], "save", "redirect")
            /\ object_list[r].docs = saved[r]
            /\ "object_list" \in DOMAIN response[r].context
            /\ response[r].context["object_list"] = saved[r]

\* C3 amended: after a successful POST or PUT to a document view,
\* formset.save() has been called exactly once, before the redirect, and the
\* rows it returned are the view's object_list in place of the candidate
\* list; the response is the redirect, which carries no context.
C3_SavedRowsReplaceObjectList ==
    \A r \in Requests :
        ValidDocDone(r) =>
            /\ Count(trace[r], "save") = 1
            /\ Precedes(trace[r], "save", "redirect")
            /\ object_list[r] = [assigned |-> TRUE, docs |-> saved[r]]
            /\ response[r].kind = "redirect"
            /\ DOMAIN response[r].context = {}

\* a successful save of a row that was not among the candidates
C3_Witness ==
    \E r \in Requests :
        /\ ValidDocDone(r)
        /\ saved[r] /= {} /\ candidate[r] /= {}
        /\ saved[r] /= candidate[r]
        /\ object_list[r].docs = saved[r]

\* C4 as stated: the redirect of a valid submission goes to success_url when
\* it is set, empty or not, and to the request path when it is unset.
C4_RedirectToSetSuccessUrl ==
    \A r \in Requests :
        (IsSubmit(r) /\ pc[r] = "done" /\ valid[r]) =>
            /\ response[r].kind = "redirect"
            /\ response[r].url =
                   (IF cfg.success_url /= None THEN cfg.success_url
                    ELSE request[r].full_path)

\* C4 amended: the redirect of a valid submission goes to success_url when
\* it is set and not empty, and to the full path of the request when it is
\* unset or empty.
C4_RedirectToNonEmptySuccessUrl ==
    \A r \in Requests :
        (IsSubmit(r) /\ pc[r] = "done" /\ valid[r]) =>
            /\ response[r].kind = "redirect"
            /\ response[r].url =
                   (IF cfg.success_url \notin {None, ""} THEN cfg.success_url
                    ELSE request[r].full_path)

\* a valid submission redirected to its own path because success_url is empty
C4_Witness ==
    \E r \in Requests :
        /\ IsSubmit(r) /\ pc[r] = "done" /\ valid[r]
        /\ cfg.success_url = ""
        /\ response[r].kind = "redirect"
        /\ response[r].url = request[r].full_path

\* construct_formset() has returned for the request
Constructed(r) == pc[r] \in {"done", "doc_formset_valid"}

\* C5: a GET is answered by a render whose context holds an unbound formset:
\* built with initial=get_initial() and with neither 'data' nor 'files',
\* which a formset gets exactly when the method is POST or PUT, from a class
\* manufactured with the configured extra, max_num, can_order and can_delete.
C5_GetRendersUnboundFormset ==
    \A r \in Requests :
        /\ (pc[r] = "done" /\ request[r].method = "GET") =>
               /\ response[r].kind = "render"
               /\ "formset" \in DOMAIN response[r].context
               /\ response[r].context["formset"] = formset[r]
               /\ DOMAIN formset[r].kwargs \cap {"data", "files"} = {}
        /\ Constructed(r) =>
               LET fs == formset[r]
                   factory == fs.cls.kwargs
               IN  /\ fs.initial = cfg.initial
                   /\ ("data" \in DOMAIN fs.kwargs) <=> IsSubmit(r)
                   /\ ("files" \in DOMAIN fs.kwargs) <=> IsSubmit(r)
                   /\ IsSubmit(r) =>
                          /\ fs.kwargs["data"] = request[r].POST
                          /\ fs.kwargs["files"] = request[r].FILES
                   /\ fs.cls.args[1] = cfg.document
                   /\ factory["extra"] = cfg.extra
                   /\ factory["max_num"] = cfg.max_num
                   /\ factory["can_order"] = cfg.can_order
                   /\ factory["can_delete"] = cfg.can_delete

\* a GET rendered under a configuration that overrides the class defaults
C5_Witness ==
    \E r \in Requests :
        /\ pc[r] = "done" /\ request[r].method = "GET"
        /\ response[r].kind = "render"
        /\ cfg.extra /= BaseFormSetMixin.extra
        /\ formset[r].cls.kwargs["extra"] = cfg.extra
        /\ DOMAIN formset[r].kwargs \cap {"data", "files"} = {}

\* the store-driver exception that ended the request, if one did
StoreFault(r) ==
    LET t == trace[r]
        n == Len(t)
    IN  IF pc[r] /= "raised" \/ n < 2 THEN "none"
        ELSE IF t[n - 1] = "save" THEN "save"
        ELSE IF t[n - 1] = "get_queryset"
             THEN IF n > 2 /\ t[n - 2] = "construct_formset"
                  THEN "second get_queryset" ELSE "first get_queryset"
        ELSE "none"

\* what the request's get_queryset() calls returned
QueryResults(r) ==
    (IF object_list[r].assigned /\ Count(trace[r], "get_queryset") > 0
     THEN {candidate[r]} ELSE {})
    \cup (IF "queryset" \in DOMAIN formset[r].kwargs
          THEN {formset[r].kwargs["queryset"]} ELSE {})

\* the calls of a handler after the put() that delegated to it
SkipPut(t) == IF t /= <<>> /\ t[1] = "put" THEN Tail(t) ELSE t

\* C6: a PUT and a POST with the same path, data and files, for which the
\* store answered alike (same query results, same exception if any) and
\* is_valid() returned the same, made the same calls in the same order, bound
\* the same formset and ended with the same response and object_list.
C6_PutEquivalentToPost ==
    \A p \in Requests, q \in Requests :
        ( /\ request[p].method = "PUT" /\ request[q].method = "POST"
          /\ Finished(p) /\ Finished(q)
          /\ request[p].full_path = request[q].full_path
          /\ request[p].POST = request[q].POST
          /\ request[p].FILES = request[q].FILES
          /\ valid[p] = valid[q]
          /\ StoreFault(p) = StoreFault(q)
          /\ Cardinality(QueryResults(p) \cup QueryResults(q)) <= 1 )
        => /\ SkipPut(trace[p]) = trace[q]
           /\ pc[p] = pc[q]
           /\ response[p] = response[q]
           /\ object_list[p] = object_list[q]
           /\ formset[p] = formset[q]
           /\ saved[p] = saved[q]

\* a PUT and a POST of the same row to a document view, both saved
C6_Witness ==
    \E p \in Requests, q \in Requests :
        /\ IsDocumentView(view)
        /\ request[p].method = "PUT" /\ request[q].method = "POST"
        /\ pc[p] = "done" /\ pc[q] = "done"
        /\ request[p] = [request[q] EXCEPT !.method = "PUT"]
        /\ valid[p] /\ valid[q]
        /\ saved[p] /= {} /\ saved[p] = saved[q]
        /\ QueryResults(p) = QueryResults(q)
        /\ Cardinality(QueryResults(p)) = 1
        /\ response[p] = response[q]

\* C7: when object_list has been assigned, whatever it holds, the context
\* get_context_data returns has the key 'object_list' and the model-named
\* key, each mapped to object_list unless the caller supplied that key, and
\* every key the caller supplied is in the context with the caller's value.
C7_ObjectListKeysPopulated ==
    \A r \in Requests :
        (object_list[r].assigned /\ call_result /= NotCalled) =>
            LET docs == object_list[r].docs
            IN  /\ \A k \in {"object_list", GetContextObjectName(docs)} :
                       /\ k \in DOMAIN call_result
                       /\ call_result[k] =
                              (IF k \in DOMAIN call_kwargs THEN call_kwargs[k] ELSE docs)
                /\ \A k \in DOMAIN call_kwargs :
                       /\ k \in DOMAIN call_result
                       /\ call_result[k] = call_kwargs[k]

\* C8: an exception of the store in get_queryset() or save() leaves the
\* handler: the raise is the last thing the request does, no response
\* exists, the failed call is not made again, and after a failed save
\* object_list is still the candidate list fetched at request start.
C8_StoreExceptionPropagates ==
    \A r \in Requests :
        LET t == trace[r]
        IN  /\ Count(t, "raise") > 0 =>
                   /\ pc[r] = "raised"
                   /\ Count(t, "raise") = 1
                   /\ t[Len(t)] = "raise"
            /\ pc[r] = "raised" => response[r].kind = "none"
            /\ Count(t, "save") <= 1
            /\ Count(t, "get_queryset") <= 2
            /\ StoreFault(r) = "first get_queryset" =>
                   /\ Count(t, "get_queryset") = 1
                   /\ object_list[r] = Unassigned
            /\ StoreFault(r) = "second get_queryset" =>
                   /\ Count(t, "get_queryset") = 2
                   /\ Count(t, "is_valid") = 0
            /\ StoreFault(r) = "save" =>
                   /\ Count(t, "save") = 1
                   /\ saved[r] = {}
                   /\ object_list[r] = [assigned |-> TRUE, docs |-> candidate[r]]

\* a save that raised on a row that was not a candidate, and a query that raised
C8_Witness ==
    \E r \in Requests, q \in Requests :
        /\ StoreFault(r) = "save"
        /\ candidate[r] /= {} /\ request[r].POST /= {}
        /\ request[r].POST /= candidate[r]
        /\ object_list[r].docs = candidate[r]
        /\ StoreFault(q) \in {"first get_queryset", "second get_queryset"}

\* C9: in a document view the first thing GET, POST and PUT do is to fetch
\* the candidate query into object_list, before the formset is constructed;
\* whenever get_context_data reads object_list it has been assigned in this
\* request.
C9_ObjectListFetchedFirst ==
    IsDocumentView(view) =>
        \A r \in Requests :
            LET t == trace[r]
            IN  /\ pc[r] \in {"proc_get", "proc_post"} =>
                       object_list[r] = [assigned |-> TRUE, docs |-> candidate[r]]
                /\ \A i \in DOMAIN t :
                       t[i] \in {"construct_formset", "get_context_data"} =>
                           /\ object_list[r].assigned
                           /\ \E j \in 1..(i - 1) :
                                  /\ t[j] = "get_queryset"
                                  /\ \A k \in 1..(j - 1) : t[k] = "put"

\* a PUT re-rendered and a GET rendered, each with the candidates it fetched
C9_Witness ==
    \E r \in Requests, q \in Requests :
        /\ IsDocumentView(view)
        /\ request[r].method = "PUT" /\ pc[r] = "done" /\ ~valid[r]
        /\ candidate[r] /= {}
        /\ response[r].context["object_list"] = candidate[r]
        /\ request[q].method = "GET" /\ pc[q] = "done"
        /\ Count(trace[q], "get_context_data") = 1

\* C10: within one request to a document view the documents passed to the
\* formset as 'queryset' are the candidate list stored in object_list at
\* request start, whatever other requests do to the store in between.
C10_QuerysetIsCandidateList ==
    IsDocumentView(view) =>
        \A r \in Requests :
            "queryset" \in DOMAIN formset[r].kwargs =>
                formset[r].kwargs["queryset"] = candidate[r]

====
